---- MODULE Spec2Model ----
(***************************************************************************)
(* React hydration rules: one scenario of the repository's catalogue.      *)
(* A component with one Suspense boundary around a lazy child is rendered  *)
(* on the server (renderToPipeableStream and its callbacks), placed in the *)
(* document, hydrated with a lazy child that may be delayed,               *)
(* child, and its button is clicked.  The click handler's shape (which     *)
(* state it writes, how the write is wrapped, whether it awaits first)     *)
(* decides whether the boundary keeps the server content or shows its      *)
(* fallback.                                                               *)
(***************************************************************************)
EXTENDS Integers, FiniteSets, Sequences, TLC

\* How many clicks one scenario fires.
MaxClicks == 2

VARIABLES
    pc,            \* position of renderAndHydrate: server, rejected, rendered, document,
                   \* prepared, attached
    waitFor,       \* the signal renderAndHydrate pipes the stream at
    serverChild,   \* the lazy child in the server render: pending, resolved, failed
    signals,       \* the callbacks of renderToPipeableStream called so far, in order
    html,          \* what ssrHtml holds for the boundary: none, content, placeholder
    logged,        \* console.error was called by onError
    h,             \* the click handler of the scenario's component
    withDelay,     \* beforeHydration installs a delayed LazyChild (resetLazyCache)
    contentReady,  \* the current LazyChild instance has loaded
    phase,         \* detached, resuming (hydrating), resumed (hydrated)
    boundary,      \* none, content, placeholder: what the Suspense boundary shows
    counter,       \* the state value the handler writes
    shown,         \* the value the button shows ("Counter: n")
    isPending,     \* the pending flag of useTransition
    hpc,           \* position of the click handler: idle, awaiting
    clicks,        \* clicks fired so far
    disqualified,  \* an update decided "fallback" has flowed into the boundary
    last,          \* the last render pass that a handler caused
    \* The test file around the scenarios: its hooks and module-level state.
    file,          \* the test file: its hooks and the number of its tests
    test,          \* the test that runs, 1..file.tests
    tpc,           \* its position: beforeEach, render, beforeHydration, client, finished
    lazyDelay,     \* the sleep of the module-level LazyChild, in ms
    lazyStatus,    \* that LazyChild: uninitialized, loading, loaded
    lazyOwner,     \* the test that installed it, 0 for the module itself
    staleTimers,   \* running sleeps of LazyChild instances that were replaced
    serverSaw,     \* the sleep of the LazyChild the last server render used
    body,          \* the tests whose container is in document.body
    roots,         \* the tests whose React root is mounted
    storeValue,    \* counterStore.value
    listeners,     \* the tests whose root is subscribed to counterStore
    testClicks,    \* the clicks of the running test
    \* A CounterStore and the listeners handed to it.
    store,         \* the object: [value, listeners]
    unsubscribers, \* the listeners for which subscribe has returned a function
    calls,         \* how often each listener has been called
    read,          \* what getSnapshot returned in each listener's last call
    snapshot,      \* what getSnapshot returned to its last caller
    \* The build of the demo pages and the e2e suite that visits them.
    gathered,      \* the files of src/*.tsx the configuration has gone through
    testCases,     \* the test cases gathered: [name, file, category]
    dist,          \* the names whose page dist/<name>/index.html was written
    visited,       \* the e2e tests that have run: [group, name, found]
    \* One call of ssrTemplate.
    options,       \* htmlWebpackPlugin.options: [sourceFile, exports, title]
    tq,            \* its position: called, rendering, piping, finished, failed
    tchild,        \* the lazy child in its render: pending, resolved, failed
    sink,          \* the chunks written to writableStream
    promise,       \* the promise it returned: pending, resolved, rejected
    settles,       \* the calls of resolve and reject
    tlogged,       \* console.error was called by its onError
    document,      \* the HTML the promise resolved with: [title, root]
    \* A demo page in the browser of an e2e test.
    await,         \* the sleep the page's handler awaits, in ms; 0 for none
    lazyTimer,     \* the page's LazyChild: idle, sleeping, importing, loaded
    e2e,           \* the test: goto, idle, clicked, waited, observed
    seen           \* what isVisible found the boundary to show

\* The state of one scenario, and the state of the test file.
scenarioVars == <<pc, waitFor, serverChild, signals, html, logged, h, withDelay,
                  contentReady, phase, boundary, counter, shown, isPending, hpc,
                  clicks, disqualified, last>>
suiteVars == <<file, test, tpc, lazyDelay, lazyStatus, lazyOwner, staleTimers,
               serverSaw, body, roots, storeValue, listeners, testClicks>>

storeVars == <<store, unsubscribers, calls, read, snapshot>>

buildVars == <<gathered, testCases, dist, visited>>

templateVars == <<options, tq, tchild, sink, promise, settles, tlogged, document>>

pageVars == <<await, lazyTimer, e2e, seen>>

vars == <<scenarioVars, suiteVars, storeVars, buildVars, templateVars, pageVars>>

\* What the steps of a scenario, of a test file and of a store leave alone.
aroundScenario == <<suiteVars, storeVars, buildVars, templateVars, pageVars>>
aroundSuite == <<scenarioVars, storeVars, buildVars, templateVars, pageVars>>
aroundStore == <<scenarioVars, suiteVars, buildVars, templateVars, pageVars>>
aroundBuild == <<scenarioVars, suiteVars, storeVars, templateVars, pageVars>>
aroundTemplate == <<scenarioVars, suiteVars, storeVars, buildVars, pageVars>>
aroundPage == <<suiteVars, storeVars, buildVars, templateVars>>

\* The state of the server render.
serverVars == <<waitFor, serverChild, signals, html, logged>>

-----------------------------------------------------------------------------
(* The click handlers of the catalogue, by shape.                          *)

SourceKinds == {"localState", "reducer", "subscriptionStore"}
Changes == {"noChange", "sameValue", "newValue"}
Transitions == {"directImport", "hook"}

Handlers ==
    [ source         : SourceKinds,      \* useState, useReducer, useSyncExternalStore
      change         : Changes,          \* what the write does to the value
      wrapped        : BOOLEAN,          \* the handler calls startTransition
      outer          : Transitions,      \* which startTransition wraps the handler
      async          : BOOLEAN,          \* the transition callback awaits
      when           : {"preAwait", "postAwait"},  \* where the write stands
      rewrap         : {"none"} \cup Transitions,  \* startTransition nested after the await
      rendersPending : BOOLEAN,          \* the component renders isPending
      memo           : BOOLEAN ]         \* the boundary sits in a React.memo child

\* isPending exists only where the handler calls the startTransition of useTransition.
WellFormed(x) == x.rendersPending => (x.wrapped /\ x.outer = "hook")

\* The fixtures of the repository.
StateChange ==
    [source |-> "localState", change |-> "newValue", wrapped |-> FALSE,
     outer |-> "directImport", async |-> FALSE, when |-> "preAwait",
     rewrap |-> "none", rendersPending |-> FALSE, memo |-> FALSE]
ReducerChange == [StateChange EXCEPT !.source = "reducer"]
SameStateValue == [StateChange EXCEPT !.change = "sameValue"]
SameReducerValue == [ReducerChange EXCEPT !.change = "sameValue"]
ExternalStore == [StateChange EXCEPT !.source = "subscriptionStore"]
TransitionUpdate == [StateChange EXCEPT !.wrapped = TRUE]
UseTransitionUpdate == [TransitionUpdate EXCEPT !.outer = "hook"]
IsPendingRender == [UseTransitionUpdate EXCEPT !.rendersPending = TRUE]
IsPendingRenderMemo == [IsPendingRender EXCEPT !.memo = TRUE]
AsyncStateAfterAwait ==
    [TransitionUpdate EXCEPT !.async = TRUE, !.when = "postAwait"]
CorrectlyWrappedAsyncTransition ==
    [AsyncStateAfterAwait EXCEPT !.rewrap = "directImport"]
CorrectlyWrappedAsyncUseTransition ==
    [AsyncStateAfterAwait EXCEPT !.outer = "hook", !.rewrap = "hook"]
AsyncUseTransitionPending ==
    [AsyncStateAfterAwait EXCEPT !.outer = "hook", !.rendersPending = TRUE]
DeferredValueWithMemo == [StateChange EXCEPT !.memo = TRUE]

-----------------------------------------------------------------------------
(* The decision: does an update show the fallback?                         *)

\* Mutation: no same-value optimization at all.
ReactOptimizationOff(x) == "fallback"

\* Same Value -> React Optimization: useState/useReducer are optimized away,
\* an external store is not.
ReactOptimization(x) ==
    IF x.source \in {"localState", "reducer"} THEN "noFallback" ELSE "fallback"

\* Mutation: the startTransition of useTransition falls back even when
\* isPending is not rendered.
RenderingIsPendingOfHook(x) ==
    IF x.rendersPending \/ x.outer = "hook" THEN "fallback" ELSE "noFallback"

\* Rendering isPending?
RenderingIsPending(x) == IF x.rendersPending THEN "fallback" ELSE "noFallback"

\* Mutation: a nested startTransition of either kind restores the transition.
CorrectlyWrappedAnyTransition(x) ==
    IF x.rewrap = "none" THEN "fallback" ELSE RenderingIsPending(x)

\* Mutation: no nested startTransition restores the transition.
CorrectlyWrappedNever(x) == "fallback"

\* Post-await -> Correctly Wrapped? -> Which startTransition?
CorrectlyWrapped(x) ==
    CASE x.rewrap = "none" -> "fallback"
      [] x.rewrap = "directImport" -> RenderingIsPending(x)
      [] x.rewrap = "hook" -> "fallback"

\* Mutation: the "Wrapped in Transition?" test is skipped.
WrappedInTransitionUnchecked(x) ==
    IF ~x.async THEN RenderingIsPending(x)
    ELSE IF x.when = "preAwait" THEN "noFallback"
    ELSE CorrectlyWrapped(x)

\* Mutation: transitions do not prevent the fallback while hydrating.
WrappedInTransitionIgnored(x) == "fallback"

\* Wrapped in Transition? -> Async Operation? -> When is State Update?
WrappedInTransition(x) ==
    IF ~x.wrapped THEN "fallback"
    ELSE IF ~x.async THEN RenderingIsPending(x)
    ELSE IF x.when = "preAwait" THEN "noFallback"
    ELSE CorrectlyWrapped(x)

\* Mutation: the "External Store?" test is skipped.
DuringHydrationStoreUnchecked(x) ==
    CASE x.change = "noChange" -> "noFallback"
      [] x.change = "sameValue" -> ReactOptimization(x)
      [] x.change = "newValue" -> WrappedInTransition(x)

\* The branch "No - During Hydration".
DuringHydration(x) ==
    CASE x.change = "noChange" -> "noFallback"
      [] x.change = "sameValue" -> ReactOptimization(x)
      [] x.change = "newValue" ->
            IF x.source = "subscriptionStore" THEN "fallback"
            ELSE WrappedInTransition(x)

\* Mutation: after hydration the rules of the hydration branch still apply.
PostHydrationAsDuring(x) == DuringHydration(x)

\* Mutation: after hydration a transition keeps the content of a store update.
PostHydrationStoreUnchecked(x) ==
    CASE x.change = "noChange" -> "noFallback"
      [] x.change = "sameValue" -> "noFallback"
      [] x.change = "newValue" ->
            IF x.wrapped THEN "noFallback" ELSE "fallback"

\* The branch "Yes - Post Hydration".
PostHydration(x) ==
    CASE x.change = "noChange" -> "noFallback"
      [] x.change = "sameValue" -> "noFallback"
      [] x.change = "newValue" ->
            IF x.source = "subscriptionStore" THEN "fallback"
            ELSE IF x.wrapped THEN "noFallback"
            ELSE "fallback"

\* User Interaction -> App Hydrated?
Flowchart(hydrated, x) ==
    IF hydrated THEN PostHydration(x) ELSE DuringHydration(x)

keepContent(hydrated, x) == Flowchart(hydrated, x) = "noFallback"

\* The update of isPending that the startTransition of useTransition makes at
\* the click: a synchronous new value of local state that no transition wraps.
PendingUpdate ==
    [source |-> "localState", change |-> "newValue", wrapped |-> FALSE,
     outer |-> "hook", async |-> FALSE, when |-> "preAwait",
     rewrap |-> "none", rendersPending |-> FALSE, memo |-> FALSE]

\* Mutation: the pending update is not part of the render pass.
NoPendingUpdate(x) == FALSE

\* The whole render pass a click causes: the handler's write and, where the
\* component renders isPending, the pending update beside it.
HasPendingUpdate(x) == x.rendersPending /\ x.wrapped /\ x.outer = "hook"

\* Mutation: memoization does not stop an update.
FlowsAlways(x) == TRUE

\* Mutation: memoization does not stop the pending update.
FlowsUnlessPendingOnly(x) == ~x.memo \/ x.rendersPending

\* An update flows into the boundary unless the boundary is memoized away.
FlowsIntoBoundary(x) == ~x.memo

\* The React Compiler variant of a fixture: the component is memoized
\* automatically, so its updates do not flow into the boundary.
ReactCompiler(x) == [x EXCEPT !.memo = TRUE]

\* Mutation: the fallback is shown even when the lazy child has loaded.
BoundaryAfterIgnoringReady(falls, ready, b) ==
    IF falls THEN "placeholder" ELSE b

\* Mutation: a pass that keeps the content brings the content back.
BoundaryAfterReverting(falls, ready, b) ==
    IF falls /\ ~ready THEN "placeholder" ELSE "content"

\* Mutation: any pass shows the fallback while the lazy child is loading.
BoundaryAfterAnyUpdate(falls, ready, b) ==
    IF ~ready THEN "placeholder" ELSE b

\* <Suspense fallback=...><LazyChild /></Suspense>: an update that may show the
\* fallback shows it while the lazy child has not loaded.
BoundaryAfter(falls, ready, b) ==
    IF falls /\ ~ready THEN "placeholder" ELSE b

-----------------------------------------------------------------------------
NoPass == [kind |-> "none", main |-> FALSE, hydrated |-> FALSE, keep |-> TRUE, coUpdate |-> FALSE,
           coKeep |-> TRUE, flows |-> FALSE, ready |-> FALSE,
           before |-> "none", after |-> "none"]

\* The test files: most hold one test and reset the lazy child before
\* hydration only; one holds three tests and a beforeEach that resets it too;
\* one holds the test of the module-level counterStore.  delay is the sleep,
\* in ms, of the lazy child that resetLazyCache installs.
TestFiles ==
    { [beforeEachResets |-> FALSE, store |-> FALSE, tests |-> 1, delay |-> 1000],
      [beforeEachResets |-> TRUE, store |-> FALSE, tests |-> 3, delay |-> 1000],
      [beforeEachResets |-> FALSE, store |-> TRUE, tests |-> 1, delay |-> 300] }

\* The listeners a store is handed.
MaxListeners == 2
Listeners == 1..MaxListeners

\* new CounterStore(), and no listener called.
StoreNew ==
    /\ store = [value |-> 0, listeners |-> {}]
    /\ unsubscribers = {}
    /\ calls = [l \in Listeners |-> 0]
    /\ read = [l \in Listeners |-> 0]
    /\ snapshot = 0

\* The document of a promise that has not resolved.
NoDocument == [title |-> "none", root |-> <<>>]

\* ssrTemplate has been called and its promise created.
TemplateCalled ==
    /\ tq = "called"
    /\ tchild = "pending"
    /\ sink = <<>>
    /\ promise = "pending"
    /\ settles = 0
    /\ tlogged = FALSE
    /\ document = NoDocument

\* No call of ssrTemplate is followed.
TemplateIdle ==
    /\ options = [sourceFile |-> <<>>, exports |-> "function", title |-> "none"]
    /\ TemplateCalled

\* No page is open.
PageIdle ==
    /\ await = 0
    /\ lazyTimer = "idle"
    /\ e2e = "goto"
    /\ seen = "none"

\* Nothing built, no e2e test run.
BuildNew ==
    /\ gathered = {}
    /\ testCases = {}
    /\ dist = {}
    /\ visited = {}

\* A test file whose modules have just been loaded.
SuiteLoaded ==
    /\ test = 1
    /\ tpc = "beforeEach"
    /\ lazyDelay = 0
    /\ lazyStatus = "uninitialized"
    /\ lazyOwner = 0
    /\ staleTimers = 0
    /\ serverSaw = 0
    /\ body = {}
    /\ roots = {}
    /\ storeValue = 0
    /\ listeners = {}
    /\ testClicks = 0

Init ==
    /\ file = [beforeEachResets |-> FALSE, store |-> FALSE, tests |-> 1,
                delay |-> 1000]
    /\ SuiteLoaded
    /\ StoreNew
    /\ BuildNew
    /\ TemplateIdle
    /\ PageIdle
    /\ pc = "server"
    /\ waitFor \in {"shellReady", "allReady"}
    /\ serverChild = "pending"
    /\ signals = <<>>
    /\ html = "none"
    /\ logged = FALSE
    /\ h \in {x \in Handlers : WellFormed(x)}
    /\ withDelay \in BOOLEAN
    /\ contentReady = FALSE
    /\ phase = "detached"
    /\ boundary = "none"
    /\ counter = 0
    /\ shown = 0
    /\ isPending = FALSE
    /\ hpc = "idle"
    /\ clicks = 0
    /\ disqualified = FALSE
    /\ last = NoPass

\* The callback s of renderToPipeableStream has been called.
Emitted(s) == \E i \in 1..Len(signals) : signals[i] = s

\* What stream.pipe writes for the boundary: the content of a lazy child that
\* has rendered, the fallback of one that is pending or has failed.
Markup(child) == IF child = "resolved" THEN "content" ELSE "placeholder"

\* Without resetLazyCache the client renders the LazyChild the server rendered.
SharedLazy == ~withDelay /\ pc \in {"prepared", "attached"}

\* Mutation: the shared lazy child's state is overwritten, not accumulated.
SharedLazyLoadsOverwriting ==
    /\ contentReady' = SharedLazy
    /\ boundary' = IF SharedLazy /\ pc = "attached" THEN "content" ELSE boundary

\* The import of the server's LazyChild has settled: where the client shares
\* it, the client's lazy child has loaded too.
SharedLazyLoads ==
    /\ contentReady' = (contentReady \/ SharedLazy)
    /\ boundary' = IF SharedLazy /\ pc = "attached" THEN "content" ELSE boundary

\* The server's lazy child loads and renders.
ServerLazyResolve ==
    /\ UNCHANGED aroundScenario
    /\ serverChild = "pending"
    /\ ~Emitted("shellError")
    /\ serverChild' = "resolved"
    /\ SharedLazyLoads
    /\ UNCHANGED <<pc, waitFor, signals, html, logged, h, withDelay, phase,
                   counter, shown, isPending, hpc, clicks, disqualified, last>>

\* Mutation: onError rejects the render.
OnErrorRejecting ==
    /\ UNCHANGED aroundScenario
    /\ serverChild = "pending"
    /\ ~Emitted("shellError")
    /\ serverChild' = "failed"
    /\ logged' = TRUE
    /\ pc' = IF pc = "server" THEN "rejected" ELSE pc
    /\ SharedLazyLoads
    /\ UNCHANGED <<waitFor, signals, html, h, withDelay, phase, counter,
                   shown, isPending, hpc, clicks, disqualified, last>>

\* onError(error): the lazy child throws while the server renders it inside the
\* boundary; console.error("Rendering error:", error), and nothing else.
OnError ==
    /\ UNCHANGED aroundScenario
    /\ serverChild = "pending"
    /\ ~Emitted("shellError")
    /\ serverChild' = "failed"
    /\ logged' = TRUE
    /\ SharedLazyLoads
    /\ UNCHANGED <<pc, waitFor, signals, html, h, withDelay, phase, counter,
                   shown, isPending, hpc, clicks, disqualified, last>>

\* onShellReady(): the shell has rendered; with waitFor = shellReady the stream
\* is piped and the promise resolves with what the stream holds now.
OnShellReady ==
    /\ UNCHANGED aroundScenario
    /\ signals = <<>>
    /\ signals' = <<"shellReady">>
    /\ IF waitFor = "shellReady"
         THEN html' = Markup(serverChild) /\ pc' = "rendered"
         ELSE UNCHANGED <<html, pc>>
    /\ UNCHANGED <<waitFor, serverChild, logged, h, withDelay, contentReady,
                   phase, boundary, counter, shown, isPending, hpc, clicks,
                   disqualified, last>>

\* Mutation: onAllReady pipes whatever waitFor is.
OnAllReadyPiping ==
    /\ UNCHANGED aroundScenario
    /\ Emitted("shellReady")
    /\ ~Emitted("allReady")
    /\ serverChild /= "pending"
    /\ signals' = Append(signals, "allReady")
    /\ html' = Markup(serverChild)
    /\ pc' = IF pc = "server" THEN "rendered" ELSE pc
    /\ UNCHANGED <<waitFor, serverChild, logged, h, withDelay, contentReady,
                   phase, boundary, counter, shown, isPending, hpc, clicks,
                   disqualified, last>>

\* Mutation: onAllReady is called without a shell.
OnAllReadyUnordered ==
    /\ UNCHANGED aroundScenario
    /\ ~Emitted("shellError")
    /\ ~Emitted("allReady")
    /\ serverChild /= "pending"
    /\ signals' = Append(signals, "allReady")
    /\ IF waitFor = "allReady"
         THEN html' = Markup(serverChild) /\ pc' = "rendered"
         ELSE UNCHANGED <<html, pc>>
    /\ UNCHANGED <<waitFor, serverChild, logged, h, withDelay, contentReady,
                   phase, boundary, counter, shown, isPending, hpc, clicks,
                   disqualified, last>>

\* Mutation: onAllReady is called while the lazy child is pending.
OnAllReadyEarly ==
    /\ UNCHANGED aroundScenario
    /\ Emitted("shellReady")
    /\ ~Emitted("allReady")
    /\ signals' = Append(signals, "allReady")
    /\ IF waitFor = "allReady"
         THEN html' = Markup(serverChild) /\ pc' = "rendered"
         ELSE UNCHANGED <<html, pc>>
    /\ UNCHANGED <<waitFor, serverChild, logged, h, withDelay, contentReady,
                   phase, boundary, counter, shown, isPending, hpc, clicks,
                   disqualified, last>>

\* onAllReady(): the shell and the lazy child have finished rendering; with
\* waitFor = allReady the stream is piped and the promise resolves.
OnAllReady ==
    /\ UNCHANGED aroundScenario
    /\ Emitted("shellReady")
    /\ ~Emitted("allReady")
    /\ serverChild /= "pending"
    /\ signals' = Append(signals, "allReady")
    /\ IF waitFor = "allReady"
         THEN html' = Markup(serverChild) /\ pc' = "rendered"
         ELSE UNCHANGED <<html, pc>>
    /\ UNCHANGED <<waitFor, serverChild, logged, h, withDelay, contentReady,
                   phase, boundary, counter, shown, isPending, hpc, clicks,
                   disqualified, last>>

\* Mutation: onShellError only logs the error.
OnShellErrorSwallowed ==
    /\ UNCHANGED aroundScenario
    /\ signals = <<>>
    /\ signals' = <<"shellError">>
    /\ logged' = TRUE
    /\ UNCHANGED <<pc, waitFor, serverChild, html, h, withDelay, contentReady,
                   phase, boundary, counter, shown, isPending, hpc, clicks,
                   disqualified, last>>

\* onShellError(error): reject(new Error("Shell rendering failed: ...")); the
\* await of renderAndHydrate throws and nothing after it runs.
OnShellError ==
    /\ UNCHANGED aroundScenario
    /\ signals = <<>>
    /\ signals' = <<"shellError">>
    /\ pc' = "rejected"
    /\ UNCHANGED <<waitFor, serverChild, html, logged, h, withDelay,
                   contentReady, phase, boundary, counter, shown, isPending,
                   hpc, clicks, disqualified, last>>

\* Mutation: the harness stops when an error was logged.
PlaceInDocumentUnlessLogged ==
    /\ UNCHANGED aroundScenario
    /\ pc = "rendered"
    /\ ~logged
    /\ pc' = "document"
    /\ boundary' = html
    /\ UNCHANGED serverVars
    /\ UNCHANGED <<h, withDelay, contentReady, phase, counter, shown, isPending,
                   hpc, clicks, disqualified, last>>

\* container.innerHTML = ssrHtml; document.body.appendChild(container)
PlaceInDocument ==
    /\ UNCHANGED aroundScenario
    /\ pc = "rendered"
    /\ pc' = "document"
    /\ boundary' = html
    /\ UNCHANGED serverVars
    /\ UNCHANGED <<h, withDelay, contentReady, phase, counter, shown, isPending,
                   hpc, clicks, disqualified, last>>

\* await beforeHydration?.(): resetLazyCache replaces LazyChild by a delayed
\* one; without it the client keeps the LazyChild of the server render.
BeforeHydration ==
    /\ UNCHANGED aroundScenario
    /\ pc = "document"
    /\ pc' = "prepared"
    /\ contentReady' = IF withDelay THEN FALSE ELSE serverChild /= "pending"
    /\ UNCHANGED serverVars
    /\ UNCHANGED <<h, withDelay, phase, boundary, counter, shown, isPending, hpc,
                   clicks, disqualified, last>>

\* Mutation: beforeHydration is not awaited.
HydrateRootUnawaited ==
    /\ UNCHANGED aroundScenario
    /\ pc \in {"document", "prepared"}
    /\ pc' = "attached"
    /\ phase' = "resuming"
    /\ UNCHANGED serverVars
    /\ UNCHANGED <<h, withDelay, contentReady, boundary, counter, shown, isPending,
                   hpc, clicks, disqualified, last>>

\* Mutation: hydrateRoot is called again on a hydrated container.
HydrateRootAgain ==
    /\ UNCHANGED aroundScenario
    /\ pc \in {"prepared", "attached"}
    /\ pc' = "attached"
    /\ phase' = "resuming"
    /\ UNCHANGED serverVars
    /\ UNCHANGED <<h, withDelay, contentReady, boundary, counter, shown, isPending,
                   hpc, clicks, disqualified, last>>

\* Mutation: createRoot().render() in place of hydrateRoot: the markup is
\* thrown away and the boundary renders anew.
HydrateRootAsCreateRoot ==
    /\ UNCHANGED aroundScenario
    /\ pc = "prepared"
    /\ pc' = "attached"
    /\ phase' = "resuming"
    /\ boundary' = IF contentReady THEN "content" ELSE "placeholder"
    /\ UNCHANGED serverVars
    /\ UNCHANGED <<h, withDelay, contentReady, counter, shown, isPending,
                   hpc, clicks, disqualified, last>>

\* hydrateRoot(container, component)
HydrateRoot ==
    /\ UNCHANGED aroundScenario
    /\ pc = "prepared"
    /\ pc' = "attached"
    /\ phase' = "resuming"
    /\ UNCHANGED serverVars
    /\ UNCHANGED <<h, withDelay, contentReady, boundary, counter, shown, isPending,
                   hpc, clicks, disqualified, last>>

\* The delayed import of LazyChild resolves: the boundary shows its content.
LazyResolve ==
    /\ UNCHANGED aroundScenario
    /\ pc = "attached"
    /\ withDelay
    /\ ~contentReady
    /\ contentReady' = TRUE
    /\ boundary' = "content"
    /\ UNCHANGED serverVars
    /\ UNCHANGED <<pc, h, withDelay, phase, counter, shown, isPending, hpc, clicks,
                   disqualified, last>>

\* Mutation: the effect flips isHydrated.
SetIsHydratedFlipping(p) == IF p = "resumed" THEN "resuming" ELSE "resumed"

\* setIsHydrated(true)
SetIsHydrated(p) == "resumed"

\* Mutation: the boundary counts as hydrated before its lazy child has loaded.
HydrateBoundaryEager ==
    /\ UNCHANGED aroundScenario
    /\ pc = "attached"
    /\ phase' = SetIsHydrated(phase)
    /\ boundary' = boundary
    /\ shown' = counter
    /\ UNCHANGED serverVars
    /\ UNCHANGED <<pc, h, withDelay, contentReady, counter, isPending, hpc,
                   clicks, disqualified, last>>

\* LazyChild has mounted on the client and its effect runs: the app is
\* hydrated, the boundary shows its content, and a transition held back by the
\* boundary commits.  Running the effect again sets the same state.
HydrateBoundary ==
    /\ UNCHANGED aroundScenario
    /\ pc = "attached"
    /\ contentReady
    /\ phase' = SetIsHydrated(phase)
    /\ boundary' = "content"
    /\ shown' = counter
    /\ UNCHANGED serverVars
    /\ UNCHANGED <<pc, h, withDelay, contentReady, counter, isPending, hpc,
                   clicks, disqualified, last>>

\* One render pass: the handler's write (main) and the pending update (co).
\* The boundary shows its fallback when an update decided "fallback" flows
\* into it while its lazy child has not loaded.
Pass(kind, main, co) ==
    LET hydrated == phase = "resumed"
        keep     == IF main THEN keepContent(hydrated, h) ELSE TRUE
        coKeep   == IF co THEN keepContent(hydrated, PendingUpdate) ELSE TRUE
        flows    == FlowsIntoBoundary(h)
        falls    == flows /\ ~(keep /\ coKeep)
        after    == BoundaryAfter(falls, contentReady, boundary)
        writes   == main /\ h.change = "newValue"
        value    == IF writes THEN counter + 1 ELSE counter
        held     == flows /\ ~contentReady /\ after = "content" /\ h.wrapped
    IN  /\ boundary' = after
        /\ disqualified' = (disqualified \/ falls)
        /\ counter' = value
        /\ shown' = IF held THEN shown ELSE value
        /\ last' = [kind |-> kind, main |-> main, hydrated |-> hydrated, keep |-> keep,
                    coUpdate |-> co, coKeep |-> coKeep, flows |-> flows,
                    ready |-> contentReady, before |-> boundary, after |-> after]

\* fireEvent.click(button): the synchronous part of the handler.
Click ==
    /\ UNCHANGED aroundScenario
    /\ pc = "attached"
    /\ hpc = "idle"
    /\ clicks < MaxClicks
    /\ clicks' = clicks + 1
    /\ Pass("click", ~(h.async /\ h.when = "postAwait"), HasPendingUpdate(h))
    /\ hpc' = IF h.async THEN "awaiting" ELSE "idle"
    /\ isPending' = (h.async /\ h.wrapped /\ h.outer = "hook")
    /\ UNCHANGED serverVars
    /\ UNCHANGED <<pc, h, withDelay, contentReady, phase>>

\* The awaited promise of the handler resolves: the part after the await runs.
AfterAwait ==
    /\ UNCHANGED aroundScenario
    /\ hpc = "awaiting"
    /\ hpc' = "idle"
    /\ isPending' = FALSE
    /\ IF h.when = "postAwait"
         THEN Pass("afterAwait", TRUE, FALSE)
         ELSE UNCHANGED <<boundary, disqualified, counter, shown, last>>
    /\ UNCHANGED serverVars
    /\ UNCHANGED <<pc, h, withDelay, contentReady, phase, clicks>>

Next ==
    \/ ServerLazyResolve
    \/ OnError
    \/ OnShellReady
    \/ OnAllReady
    \/ OnShellError
    \/ PlaceInDocument
    \/ BeforeHydration
    \/ HydrateRoot
    \/ LazyResolve
    \/ HydrateBoundary
    \/ Click
    \/ AfterAwait

Spec == Init /\ [][Next]_vars

\* The steps that do not wait for anything outside the render: a finished
\* render is signalled, renderAndHydrate runs on once its promise has resolved,
\* a loaded lazy child mounts, an awaited promise resolves.  Nothing is assumed
\* of the lazy imports, the shell or the user.
LiveSpec ==
    /\ Spec
    /\ WF_vars(OnAllReady)
    /\ WF_vars(PlaceInDocument)
    /\ WF_vars(BeforeHydration)
    /\ WF_vars(HydrateRoot)
    /\ WF_vars(HydrateBoundary)
    /\ WF_vars(AfterAwait)

-----------------------------------------------------------------------------
(* A test file: its tests run one after the other and share the module-level
   LazyChild, the module-level counterStore and document.body.              *)

\* The scenario of a test is followed by Spec; here it stays where it is.
ScenarioIdle ==
    /\ pc = "server"
    /\ waitFor = "allReady"
    /\ serverChild = "pending"
    /\ signals = <<>>
    /\ html = "none"
    /\ logged = FALSE
    /\ h = StateChange
    /\ withDelay = TRUE
    /\ contentReady = FALSE
    /\ phase = "detached"
    /\ boundary = "none"
    /\ counter = 0
    /\ shown = 0
    /\ isPending = FALSE
    /\ hpc = "idle"
    /\ clicks = 0
    /\ disqualified = FALSE
    /\ last = NoPass

SuiteInit ==
    /\ ScenarioIdle
    /\ StoreNew
    /\ BuildNew
    /\ TemplateIdle
    /\ PageIdle
    /\ file \in TestFiles
    /\ SuiteLoaded

\* resetLazyCache: LazyChild = lazy(() => sleep(delay).then(...)).  The
\* instance it replaces keeps its running sleep.
resetLazyCache(owner) ==
    /\ lazyDelay' = file.delay
    /\ lazyStatus' = "uninitialized"
    /\ lazyOwner' = owner
    /\ staleTimers' = IF lazyStatus = "loading"
                         THEN staleTimers + 1 ELSE staleTimers

\* beforeEach(() => { resetLazyCache(); }), in the one file that has it.
beforeEach ==
    /\ tpc = "beforeEach"
    /\ IF file.beforeEachResets
         THEN resetLazyCache(test)
         ELSE UNCHANGED <<lazyDelay, lazyStatus, lazyOwner, staleTimers>>
    /\ tpc' = "render"
    /\ UNCHANGED <<file, test, serverSaw, body, roots, storeValue, listeners,
                   testClicks>>
    /\ UNCHANGED aroundSuite

\* renderAndHydrate up to beforeHydration: the server render reads the
\* LazyChild of that moment and, waiting for allReady, ends once it has
\* loaded; the container is appended to document.body.
ServerRender ==
    /\ tpc = "render"
    /\ serverSaw' = lazyDelay
    /\ lazyStatus' = "loaded"
    /\ body' = body \cup {test}
    /\ tpc' = "beforeHydration"
    /\ UNCHANGED <<file, test, lazyDelay, lazyOwner, staleTimers, roots,
                   storeValue, listeners, testClicks>>
    /\ UNCHANGED aroundSuite

\* await beforeHydration(), which every test passes as resetLazyCache, then
\* hydrateRoot: the root mounts, subscribes to the store it reads, and its
\* render starts the import of the new LazyChild.
Hydrate ==
    /\ tpc = "beforeHydration"
    /\ resetLazyCache(test)
    /\ roots' = roots \cup {test}
    /\ listeners' = IF file.store THEN listeners \cup {test} ELSE listeners
    /\ tpc' = "client"
    /\ UNCHANGED <<file, test, serverSaw, body, storeValue, testClicks>>
    /\ UNCHANGED aroundSuite

\* The first commit of the root reaches <LazyChild />: its sleep starts.
LazyImport ==
    /\ tpc = "client"
    /\ lazyStatus = "uninitialized"
    /\ lazyStatus' = "loading"
    /\ UNCHANGED <<file, test, tpc, lazyDelay, lazyOwner, staleTimers,
                   serverSaw, body, roots, storeValue, listeners, testClicks>>
    /\ UNCHANGED aroundSuite

\* The sleep of the current LazyChild ends.
LazyTimer ==
    /\ lazyStatus = "loading"
    /\ lazyStatus' = "loaded"
    /\ UNCHANGED <<file, test, tpc, lazyDelay, lazyOwner, staleTimers,
                   serverSaw, body, roots, storeValue, listeners, testClicks>>
    /\ UNCHANGED aroundSuite

\* The sleep of a replaced LazyChild ends: it resolves an instance that no
\* component reads any more.
StaleTimer ==
    /\ staleTimers > 0
    /\ staleTimers' = staleTimers - 1
    /\ UNCHANGED <<file, test, tpc, lazyDelay, lazyStatus, lazyOwner,
                   serverSaw, body, roots, storeValue, listeners, testClicks>>
    /\ UNCHANGED aroundSuite

\* fireEvent.click on the button of the running test; in the store file the
\* handler is counterStore.increment().
TestClick ==
    /\ tpc = "client"
    /\ testClicks < MaxClicks
    /\ testClicks' = testClicks + 1
    /\ storeValue' = IF file.store THEN storeValue + 1 ELSE storeValue
    /\ UNCHANGED <<file, test, tpc, lazyDelay, lazyStatus, lazyOwner,
                   staleTimers, serverSaw, body, roots, listeners>>
    /\ UNCHANGED aroundSuite

\* afterEach: document.body.innerHTML = "", and counterStore["value"] = 0 in
\* the store file.  Roots stay mounted, listeners subscribed, sleeps running.
\* The next test of the file follows.
afterEachKeepingBody ==
    /\ tpc = "client"
    /\ storeValue' = IF file.store THEN 0 ELSE storeValue
    /\ IF test < file.tests
         THEN test' = test + 1 /\ tpc' = "beforeEach" /\ testClicks' = 0
         ELSE tpc' = "finished" /\ UNCHANGED <<test, testClicks>>
    /\ UNCHANGED <<file, body, lazyDelay, lazyStatus, lazyOwner, staleTimers,
                   serverSaw, roots, listeners>>
    /\ UNCHANGED aroundSuite

afterEach ==
    /\ tpc = "client"
    /\ body' = {}
    /\ storeValue' = IF file.store THEN 0 ELSE storeValue
    /\ IF test < file.tests
         THEN test' = test + 1 /\ tpc' = "beforeEach" /\ testClicks' = 0
         ELSE tpc' = "finished" /\ UNCHANGED <<test, testClicks>>
    /\ UNCHANGED <<file, lazyDelay, lazyStatus, lazyOwner, staleTimers,
                   serverSaw, roots, listeners>>
    /\ UNCHANGED aroundSuite

SuiteNext ==
    \/ beforeEach
    \/ ServerRender
    \/ Hydrate
    \/ LazyImport
    \/ LazyTimer
    \/ StaleTimer
    \/ TestClick
    \/ afterEach

SuiteSpec == SuiteInit /\ [][SuiteNext]_vars

-----------------------------------------------------------------------------
(* CounterStore: the external store that useSyncExternalStore reads.       *)

\* The test file of a store that is used on its own.
SuiteIdle ==
    /\ file = [beforeEachResets |-> FALSE, store |-> FALSE, tests |-> 1,
                delay |-> 1000]
    /\ SuiteLoaded

StoreInit ==
    /\ ScenarioIdle
    /\ SuiteIdle
    /\ StoreNew
    /\ BuildNew
    /\ TemplateIdle
    /\ PageIdle

\* subscribe(listener): this.listeners.add(listener); the function it returns
\* is kept by the caller.
subscribe(l) ==
    /\ store' = [store EXCEPT !.listeners = @ \cup {l}]
    /\ unsubscribers' = unsubscribers \cup {l}
    /\ UNCHANGED <<calls, read, snapshot>>
    /\ UNCHANGED aroundStore

\* Mutation: the returned function clears the set.
unsubscribeAll(l) ==
    /\ l \in unsubscribers
    /\ store' = [store EXCEPT !.listeners = {}]
    /\ UNCHANGED <<unsubscribers, calls, read, snapshot>>
    /\ UNCHANGED aroundStore

\* () => this.listeners.delete(listener), the function subscribe returned.
unsubscribe(l) ==
    /\ l \in unsubscribers
    /\ store' = [store EXCEPT !.listeners = @ \ {l}]
    /\ UNCHANGED <<unsubscribers, calls, read, snapshot>>
    /\ UNCHANGED aroundStore

\* getSnapshot(): return this.value
getSnapshot ==
    /\ snapshot' = store.value
    /\ UNCHANGED <<store, unsubscribers, calls, read>>
    /\ UNCHANGED aroundStore

\* Mutation: the listeners are called before the value is raised.
incrementAfterNotifying ==
    /\ store.value < MaxClicks
    /\ store' = [store EXCEPT !.value = @ + 1]
    /\ calls' = [l \in Listeners |->
                    IF l \in store.listeners THEN calls[l] + 1 ELSE calls[l]]
    /\ read' = [l \in Listeners |->
                   IF l \in store.listeners THEN store.value ELSE read[l]]
    /\ UNCHANGED <<unsubscribers, snapshot>>
    /\ UNCHANGED aroundStore

\* increment(): this.value += 1; this.listeners.forEach((l) => l()).  A
\* listener reads the snapshot when it is called.
increment ==
    /\ store.value < MaxClicks
    /\ store' = [store EXCEPT !.value = @ + 1]
    /\ calls' = [l \in Listeners |->
                    IF l \in store.listeners THEN calls[l] + 1 ELSE calls[l]]
    /\ read' = [l \in Listeners |->
                   IF l \in store.listeners THEN store.value + 1 ELSE read[l]]
    /\ UNCHANGED <<unsubscribers, snapshot>>
    /\ UNCHANGED aroundStore

StoreNext ==
    \/ \E l \in Listeners : subscribe(l)
    \/ \E l \in Listeners : unsubscribe(l)
    \/ getSnapshot
    \/ increment

StoreSpec == StoreInit /\ [][StoreNext]_vars

-----------------------------------------------------------------------------
(* The demo pages: rspack.config.js gathers a test case per file of src/*.tsx
   and writes a page per test case; the e2e suite discovers the same files
   and visits the pages.  A name is the sequence of the words it is made of. *)

\* src/*.tsx
SrcFiles ==
    { <<"No", "Suspense", "Fallback", "On", "SameStateValue">>,
      <<"No", "Suspense", "On", "DeferredValueWithMemo">>,
      <<"Suspense", "Fallback", "On", "AsyncStateAfterAwait">>,
      <<"Suspense", "Fallback", "On", "CorrectlyWrappedAsyncUseTransition">>,
      <<"Suspense", "Fallback", "On", "ExternalStore">>,
      <<"Suspense", "Fallback", "On", "IsPendingRender">> }

\* name.startsWith(prefix)
startsWith(name, prefix) ==
    /\ Len(name) >= Len(prefix)
    /\ SubSeq(name, 1, Len(prefix)) = prefix

\* name.replace(pattern, by): the first occurrence of pattern is replaced.
replace(name, pattern, by) ==
    LET at == {i \in 1..(Len(name) - Len(pattern) + 1) :
                   SubSeq(name, i, i + Len(pattern) - 1) = pattern}
    IN  IF at = {} THEN name
        ELSE LET i == CHOOSE j \in at : \A k \in at : j <= k
             IN  SubSeq(name, 1, i - 1) \o by
                   \o SubSeq(name, i + Len(pattern), Len(name))

\* `ReactCompiler${name.replace("SuspenseFallbackOn", "")}`
reactCompilerName(name) ==
    <<"ReactCompiler">> \o replace(name, <<"Suspense", "Fallback", "On">>, <<>>)

\* name.startsWith("SuspenseFallback") ? "fallback" : "no-fallback"
category(name) ==
    IF startsWith(name, <<"Suspense", "Fallback">>) THEN "fallback" ELSE "no-fallback"

\* The body of the loop over the files: the test case of the file and, for a
\* fallback case, its React Compiler variant.
testCasesOf(file_) ==
    {[name |-> file_, file |-> file_, category |-> category(file_)]}
      \cup IF category(file_) = "fallback"
             THEN {[name |-> reactCompilerName(file_), file |-> file_,
                    category |-> "react-compiler"]}
             ELSE {}

\* The e2e suite: allComponents and the three lists it filters from it.
allComponents == SrcFiles
noSuspenseComponents ==
    {name \in allComponents : startsWith(name, <<"No", "Suspense", "Fallback">>)}
suspenseComponents ==
    {name \in allComponents : startsWith(name, <<"Suspense", "Fallback">>)}
reactCompilerComponents == {reactCompilerName(name) : name \in suspenseComponents}

\* The tests of the three describe blocks.
E2eTests ==
    ({"content"} \X noSuspenseComponents)
      \cup ({"fallback"} \X suspenseComponents)
      \cup ({"compiler"} \X reactCompilerComponents)

BuildInit ==
    /\ ScenarioIdle
    /\ SuiteIdle
    /\ StoreNew
    /\ BuildNew
    /\ TemplateIdle
    /\ PageIdle

\* for (const file of glob.sync("src/*.tsx")) { testCases.push(...) }
Gather(file_) ==
    /\ file_ \in SrcFiles \ gathered
    /\ gathered' = gathered \cup {file_}
    /\ testCases' = testCases \cup testCasesOf(file_)
    /\ UNCHANGED <<dist, visited>>
    /\ UNCHANGED aroundBuild

\* new HtmlWebpackPlugin({ filename: `./${testCase.name}/index.html`, ... }):
\* the build writes the page of a test case.
WritePage(tc) ==
    /\ gathered = SrcFiles
    /\ tc \in testCases
    /\ tc.name \notin dist
    /\ dist' = dist \cup {tc.name}
    /\ UNCHANGED <<gathered, testCases, visited>>
    /\ UNCHANGED aroundBuild

\* A test of the e2e suite, run on the finished build: page.goto of
\* dist/<componentName>/index.html.
E2eTest(t) ==
    /\ gathered = SrcFiles
    /\ dist = {tc.name : tc \in testCases}
    /\ t \in E2eTests
    /\ \A v \in visited : <<v.group, v.name>> /= t
    /\ visited' = visited \cup
                     {[group |-> t[1], name |-> t[2], found |-> t[2] \in dist]}
    /\ UNCHANGED <<gathered, testCases, dist>>
    /\ UNCHANGED aroundBuild

BuildNext ==
    \/ \E f \in SrcFiles : Gather(f)
    \/ \E tc \in UNION {testCasesOf(f) : f \in SrcFiles} : WritePage(tc)
    \/ \E t \in E2eTests : E2eTest(t)

BuildSpec == BuildInit /\ [][BuildNext]_vars

-----------------------------------------------------------------------------
(* ssrTemplate: the template that renders the page of a test case.         *)

\* What a caller may pass as options: no sourceFile (<<>>), the file of a page, or
\* a file that src/ does not hold; the module of a file exports a component
\* or something else; a title or none.
TemplateOptions ==
    [ sourceFile : {<<>>, <<"Missing">>} \cup SrcFiles,
      exports    : {"function", "other"},
      title      : {"none", "given"} ]

\* getComponentForEntry: the element to render, or the error it throws.
getComponentForEntry(o) ==
    IF o.sourceFile = <<>> THEN "No sourceFile specified"
    ELSE IF o.sourceFile \notin SrcFiles THEN "No component found"
    ELSE IF o.exports /= "function" THEN "Invalid component found"
    ELSE "element"

\* <title>${options.title || "React App"}</title>
titleOf(o) == IF o.title = "none" THEN "React App" ELSE o.title

TemplateInit ==
    /\ ScenarioIdle
    /\ SuiteIdle
    /\ StoreNew
    /\ BuildNew
    /\ options \in TemplateOptions
    /\ TemplateCalled
    /\ PageIdle

\* The executor of the promise: try { getComponentForEntry;
\* renderToPipeableStream } catch (error) { reject(error) }
TemplateStart ==
    /\ tq = "called"
    /\ IF getComponentForEntry(options) = "element"
         THEN tq' = "rendering" /\ UNCHANGED <<promise, settles>>
         ELSE tq' = "failed" /\ promise' = "rejected" /\ settles' = settles + 1
    /\ UNCHANGED <<options, tchild, sink, tlogged, document>>
    /\ UNCHANGED aroundTemplate

\* The lazy child renders; once the stream is piped its content is flushed.
TemplateChildRenders ==
    /\ tq \in {"rendering", "piping"}
    /\ tchild = "pending"
    /\ tchild' = "resolved"
    /\ sink' = IF tq = "piping" THEN Append(sink, "content") ELSE sink
    /\ UNCHANGED <<options, tq, promise, settles, tlogged, document>>
    /\ UNCHANGED aroundTemplate

\* Mutation: onError rejects.
TemplateOnErrorRejecting ==
    /\ tq \in {"rendering", "piping"}
    /\ tchild = "pending"
    /\ tchild' = "failed"
    /\ tlogged' = TRUE
    /\ promise' = "rejected"
    /\ settles' = settles + 1
    /\ sink' = IF tq = "piping" THEN Append(sink, "clientRender") ELSE sink
    /\ UNCHANGED <<options, tq, document>>
    /\ UNCHANGED aroundTemplate

\* onError(error): console.error("SSR Error:", error).  The lazy child has
\* failed; the boundary is left to the client.
TemplateOnError ==
    /\ tq \in {"rendering", "piping"}
    /\ tchild = "pending"
    /\ tchild' = "failed"
    /\ tlogged' = TRUE
    /\ sink' = IF tq = "piping" THEN Append(sink, "clientRender") ELSE sink
    /\ UNCHANGED <<options, tq, promise, settles, document>>
    /\ UNCHANGED aroundTemplate

\* What pipe writes at once: the shell, with the boundary as it is.
ShellChunks(child) ==
    IF child = "resolved" THEN <<"shell", "content">>
    ELSE IF child = "failed" THEN <<"shell", "placeholder", "clientRender">>
    ELSE <<"shell", "placeholder">>

\* Mutation: the sink is ended after piping, as renderAndHydrate does.
TemplateShellReadyEnding ==
    /\ tq = "rendering"
    /\ tq' = "finished"
    /\ sink' = ShellChunks(tchild)
    /\ promise' = "resolved"
    /\ settles' = settles + 1
    /\ document' = [title |-> titleOf(options), root |-> ShellChunks(tchild)]
    /\ UNCHANGED <<options, tchild, tlogged>>
    /\ UNCHANGED aroundTemplate

\* onShellReady(): the writable stream is created and the render piped to it.
TemplateShellReady ==
    /\ tq = "rendering"
    /\ tq' = "piping"
    /\ sink' = ShellChunks(tchild)
    /\ UNCHANGED <<options, tchild, promise, settles, tlogged, document>>
    /\ UNCHANGED aroundTemplate

\* onShellError(error): reject(error)
TemplateShellError ==
    /\ tq = "rendering"
    /\ tq' = "failed"
    /\ promise' = "rejected"
    /\ settles' = settles + 1
    /\ UNCHANGED <<options, tchild, sink, tlogged, document>>
    /\ UNCHANGED aroundTemplate

\* writableStream.on("finish"): the render has written everything and ended
\* the stream; resolve(fullHtml).
TemplateFinish ==
    /\ tq = "piping"
    /\ tchild /= "pending"
    /\ tq' = "finished"
    /\ promise' = "resolved"
    /\ settles' = settles + 1
    /\ document' = [title |-> titleOf(options), root |-> sink]
    /\ UNCHANGED <<options, tchild, sink, tlogged>>
    /\ UNCHANGED aroundTemplate

TemplateNext ==
    \/ TemplateStart
    \/ TemplateChildRenders
    \/ TemplateOnError
    \/ TemplateShellReady
    \/ TemplateShellError
    \/ TemplateFinish

TemplateSpec == TemplateInit /\ [][TemplateNext]_vars

\* The executor runs, the shell gets ready or fails, the import of the lazy
\* child settles, the render ends the stream.
TemplateLiveSpec == TemplateSpec /\ WF_vars(TemplateNext)

-----------------------------------------------------------------------------
(* A demo page in the browser, driven by its e2e test.  The page holds the
   HTML the build rendered; its script hydrates it; the test clicks the
   button, waits, and looks at the boundary.  The timers of the page run on
   the page's event loop: none fires before its time, and of two the one due
   first fires first.  The timer of the test runs in the test's process.   *)

\* sleep(3000) of clientSideDelay, sleep(100) of the handler that awaits.
ClientDelay == 3000
HandlerSleep == 100

\* The pages of the build, by the handler of each and the sleep it awaits:
\* the files of src/*.tsx and, for those named SuspenseFallback..., the
\* variant that the React Compiler has compiled.
Pages ==
    LET noFallback == { [h |-> SameStateValue, await |-> 0],
                        [h |-> DeferredValueWithMemo, await |-> 0] }
        fallback   == { [h |-> AsyncStateAfterAwait, await |-> HandlerSleep],
                        [h |-> AsyncUseTransitionPending, await |-> ClientDelay],
                        [h |-> ExternalStore, await |-> 0],
                        [h |-> IsPendingRender, await |-> 0] }
    IN  noFallback \cup fallback
          \cup { [h |-> ReactCompiler(q.h), await |-> q.await] : q \in fallback }

\* dist/<name>/index.html has loaded: the boundary shows the content that
\* ssrTemplate rendered.
PageInit ==
    /\ SuiteIdle
    /\ StoreNew
    /\ BuildNew
    /\ TemplateIdle
    /\ \E q \in Pages : h = q.h /\ await = q.await
    /\ lazyTimer = "idle"
    /\ e2e = "goto"
    /\ seen = "none"
    /\ pc = "document"
    /\ waitFor = "allReady"
    /\ serverChild = "resolved"
    /\ signals = <<"shellReady", "allReady">>
    /\ html = "content"
    /\ logged = FALSE
    /\ withDelay = TRUE
    /\ contentReady = FALSE
    /\ phase = "detached"
    /\ boundary = "content"
    /\ counter = 0
    /\ shown = 0
    /\ isPending = FALSE
    /\ hpc = "idle"
    /\ clicks = 0
    /\ disqualified = FALSE
    /\ last = NoPass

\* The script of the page: hydrateRoot(container, <App />).  The render
\* reaches <LazyChild />, whose clientSideDelay starts.
PageHydrate ==
    /\ pc = "document"
    /\ pc' = "attached"
    /\ phase' = "resuming"
    /\ lazyTimer' = "sleeping"
    /\ UNCHANGED serverVars
    /\ UNCHANGED <<h, withDelay, contentReady, boundary, counter, shown,
                   isPending, hpc, clicks, disqualified, last>>
    /\ UNCHANGED <<await, e2e, seen>>
    /\ UNCHANGED aroundPage

\* sleep(3000) of the lazy child is over: import("./fixtures/LazyChild") starts.
PageLazySleepEnds ==
    /\ lazyTimer = "sleeping"
    /\ lazyTimer' = "importing"
    /\ UNCHANGED scenarioVars
    /\ UNCHANGED <<await, e2e, seen>>
    /\ UNCHANGED aroundPage

\* The import has resolved: the lazy child has loaded and the boundary shows
\* its content.
PageLazyImported ==
    /\ lazyTimer = "importing"
    /\ lazyTimer' = "loaded"
    /\ contentReady' = TRUE
    /\ boundary' = "content"
    /\ UNCHANGED serverVars
    /\ UNCHANGED <<pc, h, withDelay, phase, counter, shown, isPending, hpc,
                   clicks, disqualified, last>>
    /\ UNCHANGED <<await, e2e, seen>>
    /\ UNCHANGED aroundPage

\* The loaded lazy child mounts: the boundary is hydrated.
PageHydrateBoundary ==
    /\ pc = "attached"
    /\ contentReady
    /\ phase = "resuming"
    /\ phase' = "resumed"
    /\ boundary' = "content"
    /\ shown' = counter
    /\ UNCHANGED serverVars
    /\ UNCHANGED <<pc, h, withDelay, contentReady, counter, isPending, hpc,
                   clicks, disqualified, last>>
    /\ UNCHANGED pageVars
    /\ UNCHANGED aroundPage

\* await page.waitForLoadState("networkidle")
PageNetworkIdle ==
    /\ e2e = "goto"
    /\ pc = "attached"
    /\ e2e' = "idle"
    /\ UNCHANGED scenarioVars
    /\ UNCHANGED <<await, lazyTimer, seen>>
    /\ UNCHANGED aroundPage

\* await page.locator("button").first().click(): the synchronous part of the
\* handler; a handler that awaits starts its sleep.
PageClick ==
    /\ e2e = "idle"
    /\ e2e' = "clicked"
    /\ clicks' = clicks + 1
    /\ Pass("click", ~(h.async /\ h.when = "postAwait"), HasPendingUpdate(h))
    /\ hpc' = IF h.async THEN "awaiting" ELSE "idle"
    /\ isPending' = (h.async /\ h.wrapped /\ h.outer = "hook")
    /\ UNCHANGED serverVars
    /\ UNCHANGED <<pc, h, withDelay, contentReady, phase>>
    /\ UNCHANGED <<await, lazyTimer, seen>>
    /\ UNCHANGED aroundPage

\* Mutation: the sleeps of the page end in any order.
PageAwaitedInAnyOrder ==
    /\ hpc = "awaiting"
    /\ hpc' = "idle"
    /\ isPending' = FALSE
    /\ Pass("afterAwait", TRUE, FALSE)
    /\ UNCHANGED serverVars
    /\ UNCHANGED <<pc, h, withDelay, contentReady, phase, clicks>>
    /\ UNCHANGED pageVars
    /\ UNCHANGED aroundPage

\* The sleep the handler awaits is over and the handler writes.  A sleep as
\* long as the lazy child's, started after it, ends after it.
PageAwaited ==
    /\ hpc = "awaiting"
    /\ await >= ClientDelay => lazyTimer /= "sleeping"
    /\ hpc' = "idle"
    /\ isPending' = FALSE
    /\ Pass("afterAwait", TRUE, FALSE)
    /\ UNCHANGED serverVars
    /\ UNCHANGED <<pc, h, withDelay, contentReady, phase, clicks>>
    /\ UNCHANGED pageVars
    /\ UNCHANGED aroundPage

\* await page.waitForTimeout(100), in the process of the test.
PageWaitForTimeout ==
    /\ e2e = "clicked"
    /\ e2e' = "waited"
    /\ UNCHANGED scenarioVars
    /\ UNCHANGED <<await, lazyTimer, seen>>
    /\ UNCHANGED aroundPage

\* page.locator("text=Suspense Boundary ...").isVisible(): what the boundary
\* shows now; isVisible does not wait.
PageIsVisible ==
    /\ e2e = "waited"
    /\ e2e' = "observed"
    /\ seen' = boundary
    /\ UNCHANGED scenarioVars
    /\ UNCHANGED <<await, lazyTimer>>
    /\ UNCHANGED aroundPage

PageNext ==
    \/ PageHydrate
    \/ PageLazySleepEnds
    \/ PageLazyImported
    \/ PageHydrateBoundary
    \/ PageNetworkIdle
    \/ PageClick
    \/ PageAwaited
    \/ PageWaitForTimeout
    \/ PageIsVisible

PageSpec == PageInit /\ [][PageNext]_vars

-----------------------------------------------------------------------------
(* The trigger of a handler, in the words of the decision procedure.       *)

ValueChanged(x) == x.change = "newValue"
Deferred(x) == x.wrapped
Urgent(x) == ~x.wrapped
LocalSource(x) == x.source \in {"localState", "reducer"}
PostResume(x) == x.async /\ x.when = "postAwait"
AsyncContextPreserved(x) == x.rewrap = "directImport"

\* The document holds the boundary's content: the case the decision is about.
ContentServed == html = "content"

\* The last pass dispatched the handler's own write, while hydrating / hydrated.
DecidedResuming == last.main /\ ~last.hydrated
DecidedResumed == last.main /\ last.hydrated

-----------------------------------------------------------------------------
C3_UrgentFallsBack ==
    (DecidedResuming /\ Urgent(h) /\ ValueChanged(h) /\ LocalSource(h))
        => /\ ~last.keep
           /\ (last.flows /\ ~last.ready) => last.after = "placeholder"

\* C3: the reducer fixture's first click turns the content into the fallback.
C3_Witness ==
    /\ h = ReducerChange
    /\ DecidedResuming /\ ~last.ready
    /\ last.before = "content" /\ boundary = "placeholder" /\ shown = 1

C4_Handler(x) ==
    /\ Deferred(x) /\ ~PostResume(x) /\ ValueChanged(x)
    /\ LocalSource(x) /\ ~x.rendersPending

C6_Handler(x) ==
    /\ Deferred(x) /\ PostResume(x) /\ AsyncContextPreserved(x)
    /\ ~x.rendersPending /\ LocalSource(x)

Eligible(x) ==
    /\ Deferred(x) /\ ValueChanged(x) /\ LocalSource(x)
    /\ (PostResume(x) => AsyncContextPreserved(x))

\* C7: while hydrating, a render pass of an otherwise eligible handler whose
\* component renders isPending is not decided keepContent = TRUE (the write or
\* the pending update beside it is decided "fallback"), and the boundary the
\* pass flows into ends in placeholder while the lazy child has not loaded.
C7_PendingDowngrades ==
    (Eligible(h) /\ h.rendersPending /\ last.kind /= "none" /\ ~last.hydrated)
        => /\ ~(last.keep /\ last.coKeep)
           /\ (last.flows /\ ~last.ready) => last.after = "placeholder"

\* C7: the isPending fixture's click: content replaced, counter already at 1.
C7_Witness ==
    /\ h = IsPendingRender
    /\ DecidedResuming /\ ~last.ready /\ last.coUpdate
    /\ last.before = "content" /\ boundary = "placeholder" /\ shown = 1

\* The handlers of C8: a synchronous write that changes a useState or
\* useReducer value, wrapped by the startTransition of useTransition, in a
\* component that does not render isPending.
C8_Handler(x) ==
    /\ Deferred(x) /\ x.outer = "hook" /\ ~x.async
    /\ ValueChanged(x) /\ LocalSource(x) /\ ~x.rendersPending

C10_Stated ==
    pc = "attached"
        => (boundary = "placeholder"
              <=> (~contentReady /\ (phase /= "resumed" \/ disqualified)))

\* C10, amended: in every state in which the boundary exists, served with its
\* content, it shows its placeholder iff its lazy child has not loaded and a
\* disqualifying update has flowed into it; incomplete hydration alone never
\* shows the placeholder.
C10_PlaceholderIff ==
    (boundary /= "none" /\ ContentServed)
        => (boundary = "placeholder" <=> (~contentReady /\ disqualified))

\* C10: hydrating, lazy child still loading, no trigger yet: content is shown.
C10_Witness ==
    /\ pc = "attached" /\ phase = "resuming" /\ ~contentReady
    /\ clicks = 0 /\ boundary = "content"

-----------------------------------------------------------------------------
\* A step that renders a pass: a click, or the part of a handler after its await.
PassStep ==
    \/ clicks' = clicks + 1
    \/ hpc = "awaiting" /\ hpc' = "idle" /\ h.when = "postAwait"

C12_KeepLeavesBoundary ==
    [][ (PassStep /\ last'.keep /\ last'.coKeep)
            => /\ boundary' = boundary
               /\ contentReady' = contentReady
               /\ (last'.main /\ ValueChanged(h)) => counter' = counter + 1 ]_vars

\* C12: a reducer dispatch inside startTransition, kept while the lazy child is
\* loading; the reducer state has advanced.
C12_Witness ==
    /\ h = [TransitionUpdate EXCEPT !.source = "reducer"]
    /\ DecidedResuming /\ last.keep /\ ~last.ready
    /\ last.before = "content" /\ boundary = "content" /\ counter = 1

\* C14: hydrateRoot starts the hydrating phase, nothing but hydrateRoot does,
\* and once the app is hydrated it stays hydrated whatever is dispatched.
C14_PhaseOneWay ==
    [][ /\ phase = "resumed" => phase' = "resumed"
        /\ (pc = "prepared" /\ pc' = "attached") => phase' = "resuming"
        /\ phase' = "resuming" => (phase = "resuming" \/ pc = "prepared")
        /\ pc' /= "attached" => phase' = "detached" ]_vars

\* C14: an unwrapped update dispatched after hydration falls back in its
\* decision and leaves the app hydrated.
C14_Witness ==
    /\ h = StateChange
    /\ phase = "resumed" /\ DecidedResumed /\ ~last.keep

C19_ShellErrorRejects ==
    Emitted("shellError")
        => /\ pc = "rejected"
           /\ signals = <<"shellError">>
           /\ html = "none" /\ boundary = "none" /\ phase = "detached"

\* C19: the shell fails although the lazy child had already rendered.
C19_Witness ==
    /\ pc = "rejected" /\ signals = <<"shellError">>
    /\ serverChild = "resolved" /\ html = "none" /\ phase = "detached"

\* C20: when the lazy child fails after the shell is ready, the error is logged
\* and the render is not rejected; the HTML, once produced, holds the
\* boundary's fallback, and it is eventually produced.
C20_DeferredErrorReported ==
    /\ []((serverChild = "failed" /\ Emitted("shellReady"))
            => /\ logged
               /\ pc /= "rejected"
               /\ html /= "none" => html = "placeholder")
    /\ (serverChild = "failed" /\ Emitted("shellReady")) ~> (html /= "none")

\* C20: the document of a render whose lazy child failed shows the fallback.
C20_Witness ==
    /\ serverChild = "failed" /\ logged /\ signals = <<"shellReady", "allReady">>
    /\ pc = "document" /\ boundary = "placeholder"

C24_RoundTripContent ==
    (ContentServed /\ clicks = 0)
        => /\ boundary /= "placeholder"
           /\ pc \in {"document", "prepared", "attached"} => boundary = "content"

\* C24: a whole run without a click, piped at shellReady with the lazy child
\* rendered in the shell, hydrated with a delayed lazy child.
C24_Witness ==
    /\ ContentServed /\ waitFor = "shellReady" /\ withDelay
    /\ clicks = 0 /\ phase = "resumed" /\ boundary = "content"

C29_Handler(x) ==
    /\ x.memo /\ ValueChanged(x) /\ LocalSource(x) /\ ~x.async
    /\ (Urgent(x) \/ x.rendersPending)

\* C29: with the boundary memoized, an unwrapped write and a transition with a
\* rendered isPending leave served content in place while hydrating, and the
\* button shows the new value of the counter after every pass.
C29_MemoKeeps ==
    C29_Handler(h)
        => /\ ContentServed => boundary /= "placeholder"
           /\ shown = counter

\* C29: the memoized isPending fixture clicked while the lazy child is loading.
C29_Witness ==
    /\ h = IsPendingRenderMemo
    /\ DecidedResuming /\ ~last.ready /\ last.coUpdate /\ ~last.coKeep
    /\ boundary = "content" /\ ~contentReady /\ shown = 1 /\ counter = 1

\* The rules as the decision procedure lists them, first match first.
C30_StatedRules(hydrated, x) ==
    <<[when |-> ~ValueChanged(x), keep |-> TRUE],
      [when |-> x.source = "subscriptionStore", keep |-> FALSE],
      [when |-> ~hydrated /\ Urgent(x), keep |-> FALSE],
      [when |-> ~hydrated /\ PostResume(x) /\ ~AsyncContextPreserved(x),
       keep |-> FALSE],
      [when |-> ~hydrated, keep |-> TRUE],
      [when |-> TRUE, keep |-> Deferred(x)]>>

\* The rules in the order in which the decision is found to apply them.
C30_Rules(hydrated, x) ==
    <<[when |-> x.change = "noChange", keep |-> TRUE],
      [when |-> ~ValueChanged(x) /\ (hydrated \/ LocalSource(x)), keep |-> TRUE],
      [when |-> x.source = "subscriptionStore", keep |-> FALSE],
      [when |-> Urgent(x), keep |-> FALSE],
      [when |-> hydrated, keep |-> TRUE],
      [when |-> PostResume(x) /\ ~AsyncContextPreserved(x), keep |-> FALSE],
      [when |-> x.async /\ ~PostResume(x), keep |-> TRUE],
      [when |-> x.rendersPending, keep |-> FALSE],
      [when |-> TRUE, keep |-> TRUE]>>

\* The decision of the first rule that matches.
FirstMatch(rules) ==
    rules[CHOOSE i \in 1..Len(rules) :
            rules[i].when /\ \A j \in 1..(i - 1) : ~rules[j].when].keep

C25_ServerUndelayed == tpc \in {"beforeHydration", "client", "finished"} => serverSaw = 0

C31_ContentReadyMonotone ==
    [][ /\ contentReady => contentReady'
        /\ (Click \/ AfterAwait) => contentReady' = contentReady ]_vars

\* C31: the lazy child loaded after the boundary had fallen back, and a
\* second click was dispatched on the loaded boundary.
C31_Witness ==
    /\ contentReady /\ disqualified /\ clicks = 2
    /\ last.kind = "click" /\ last.ready

\* The order of the steps of renderAndHydrate.
C32_Order ==
    { <<"server", "rendered">>, <<"server", "rejected">>,
      <<"rendered", "document">>, <<"document", "prepared">>,
      <<"prepared", "attached">> }

\* C32: renderAndHydrate goes from the server render to the document, to
\* beforeHydration, to hydrateRoot, in this order; hydration has not started
\* while the HTML is not in the document; the HTML is not touched once the
\* promise has resolved, and with a delayed lazy child installed by
\* beforeHydration the server's lazy child settles without loading it.
C32_FixedOrder ==
    /\ [](phase /= "detached" => pc = "attached" /\ html /= "none" /\ boundary /= "none")
    /\ [](pc \in {"document", "prepared", "attached"} => html /= "none")
    /\ [][ /\ pc' /= pc => <<pc, pc'>> \in C32_Order
           /\ pc \notin {"server"} => html' = html
           /\ (withDelay /\ serverChild' /= serverChild) => contentReady' = contentReady ]_vars

\* C32: hydrated from the shell's HTML with a delayed lazy child; the server's
\* lazy child has rendered since, the client's has not loaded.
C32_Witness ==
    /\ pc = "attached" /\ waitFor = "shellReady" /\ withDelay
    /\ html = "placeholder" /\ serverChild = "resolved" /\ ~contentReady

\* C33: one callback settles the promise of the server render.  The HTML is
\* written once, by the callback that waitFor names, and the promise resolves
\* in that step; the other callback leaves HTML and promise alone; a shell
\* error rejects and no HTML exists; with waitFor = shellReady the HTML is what
\* the boundary was when the shell was ready, whatever renders later.
C33_SettledOnce ==
    /\ [](Emitted("shellError") => pc = "rejected" /\ html = "none")
    /\ [](html /= "none" => Emitted(waitFor))
    /\ [][ /\ html' /= html =>
                /\ html = "none" /\ pc = "server" /\ pc' = "rendered"
                /\ ~Emitted(waitFor) /\ signals' = Append(signals, waitFor)
           /\ (pc = "server" /\ pc' = "rendered") => html' /= "none"
           /\ (signals' /= signals /\ ~Emitted(waitFor)' ) =>
                UNCHANGED html /\ pc' \in {"server", "rejected"}
           /\ (signals' /= signals /\ Emitted(waitFor)) => UNCHANGED <<html, pc>>
         ]_vars

\* C33: resolved at shellReady with the fallback in the HTML; the lazy child
\* has rendered since and onAllReady has been called.
C33_Witness ==
    /\ waitFor = "shellReady" /\ html = "placeholder"
    /\ serverChild = "resolved" /\ Emitted("allReady") /\ pc = "document"

\* C38: the store keeps its protocol.  An increment raises the value by 1 and
\* calls each listener of the set once, which reads the raised value; no other
\* step calls a listener or changes the value, so a listener that was removed
\* is not called while it is out of the set; the function subscribe returned
\* takes its own listener out of the set and no other; getSnapshot returns
\* the value and changes nothing of the store.
C38_StoreProtocol ==
    [][ /\ store'.value \in {store.value, store.value + 1}
        /\ \A l \in Listeners :
              /\ calls'[l] = IF store'.value /= store.value /\ l \in store.listeners
                                THEN calls[l] + 1 ELSE calls[l]
              /\ calls'[l] /= calls[l] => read'[l] = store'.value
              /\ calls'[l] = calls[l] => read'[l] = read[l]
        /\ store'.value /= store.value => store'.listeners = store.listeners
        /\ \A l \in store.listeners \ store'.listeners :
              /\ l \in unsubscribers
              /\ store'.listeners = store.listeners \ {l}
        /\ snapshot' /= snapshot => (snapshot' = store.value /\ store' = store)
      ]_vars

\* C38: a listener was called, was removed, and has missed an increment that
\* the listener still subscribed was called for.
C38_Witness ==
    /\ store.value = 2 /\ store.listeners = {2}
    /\ calls[1] = 1 /\ read[1] = 1
    /\ calls[2] = 2 /\ read[2] = 2
    /\ snapshot = 2

\* The e2e suite has run all its tests.
E2eDone == \A t \in E2eTests : \E v \in visited : <<v.group, v.name>> = t

\* C35: once the e2e suite has run, every page of the no-fallback category
\* has been visited by the group that expects the content, and every page
\* the suite went to was found in dist under the name the suite used.
C35_PagesCovered ==
    E2eDone =>
      /\ \A tc \in testCases :
            tc.category = "no-fallback" =>
              \E v \in visited : v.group = "content" /\ v.name = tc.name
      /\ \A v \in visited : v.found

\* C34: ssrTemplate settles its promise once.  resolve or reject is called at
\* most once and in the end once; the promise has resolved only when the
\* stream has finished, the lazy child flushed, with the document of what the
\* sink holds; without a sourceFile, a component for it or a function, the
\* promise rejects and nothing is rendered; after the shell is ready an error
\* that was logged does not reject it.
C34_SettlesOnce ==
    /\ [](settles <= 1 /\ (promise = "pending" <=> settles = 0))
    /\ [](promise = "resolved" =>
            /\ tq = "finished" /\ tchild /= "pending"
            /\ document = [title |-> titleOf(options), root |-> sink]
            /\ \E i \in 1..Len(sink) : sink[i] \in {"content", "clientRender"})
    /\ []((getComponentForEntry(options) /= "element" /\ tq /= "called") =>
            promise = "rejected" /\ tq = "failed" /\ sink = <<>> /\ ~tlogged)
    /\ []((tlogged /\ tq \in {"piping", "finished"}) => promise /= "rejected")
    /\ <>(settles = 1)

\* C34: the lazy child failed after the shell was piped; the error was logged
\* and the promise has resolved with the document.
C34_Witness ==
    /\ promise = "resolved" /\ tlogged
    /\ sink = <<"shell", "placeholder", "clientRender">>
    /\ document.title = "React App"

\* C36: on the page whose handler writes after sleep(100), the test that
\* looks at the boundary after waitForTimeout(100), while the lazy child
\* still sleeps, finds the write applied and the fallback shown.
C36_ObservedAfterWrite ==
    (h = AsyncStateAfterAwait /\ e2e = "observed" /\ lazyTimer = "sleeping") =>
        /\ last.kind = "afterAwait" /\ counter = 1
        /\ seen = "placeholder"

\* C37 as stated: on the page of the async useTransition fixture the write
\* after the await never happens before the lazy child has loaded.
C37_Stated ==
    (h = AsyncUseTransitionPending /\ last.kind = "afterAwait") => last.ready

\* C37: on the page of the async useTransition fixture the handler awaits
\* the sleep the lazy child awaits, started later: the write after the await
\* never happens while the lazy child's sleep runs, and it never changes what
\* the boundary shows; the fallback appears with the pending update of the
\* click and with nothing else.
C37_WriteAfterSleep ==
    /\ []((h = AsyncUseTransitionPending /\ last.kind = "afterAwait") =>
            (lazyTimer /= "sleeping" /\ last.after = last.before /\ counter = 1))
    /\ [][ (h = AsyncUseTransitionPending /\ boundary' = "placeholder"
               /\ boundary /= "placeholder")
              => (last'.kind = "click" /\ last'.coUpdate /\ ~last'.coKeep) ]_vars

\* C37: the write came while the import of the lazy child was still loading;
\* the fallback was there since the click.
C37_Witness ==
    /\ h = AsyncUseTransitionPending /\ last.kind = "afterAwait"
    /\ lazyTimer = "importing" /\ ~contentReady
    /\ last.before = "placeholder" /\ boundary = "placeholder"

====
